---- MODULE Spec2Model ----
(***************************************************************************)
(* Model of the variables panel of the builder                             *)
(* (apps/builder/app/builder/features/settings-panel/variables.tsx).       *)
(*                                                                         *)
(* An expression text is a sequence of tokens.  Operands are literals,     *)
(* identifiers and the keyword "this"; operators are "+" and "=".          *)
(* The stores ($dataSources, $resources, $props) are maps from id to       *)
(* entity; a transaction of serverSyncStore is one atomic step.            *)
(***************************************************************************)
EXTENDS Integers, Sequences, FiniteSets, TLC

VARIABLES
    dataSources,      \* $dataSources: id -> DataSource
    resources,        \* $resources: set of resource ids that have an entry
    props,            \* $props: id -> Prop
    selector,         \* $selectedInstanceSelector (NoSelector when undefined)
    view,             \* VariablesPanel view state: list | add | edit + variable
    tab,              \* VariablePanel tab state
    name,             \* VariableValuePanel name state
    value,            \* VariableValuePanel value state (expression text)
    nameErrors,       \* VariableValuePanel nameErrors state
    valueErrors,      \* VariableValuePanel valueErrors state
    expression,       \* ListPanel expression state (NoText when undefined)
    propId,           \* propId the panel was opened with
    lastOp,           \* the handler that ran last and what it did
    propName,         \* propName the panel was opened with
    minted,           \* ids nanoid() has handed out
    created           \* id -> scopeInstanceId the variable had when created

vars == <<dataSources, resources, props, selector, view, tab, name, value,
          nameErrors, valueErrors, expression, propId, lastOp,
          propName, minted, created>>

stores == <<dataSources, resources, props>>

----------------------------------------------------------------------------
(* Bounds *)

MaxNew == 1          \* number of ids nanoid() hands out
MaxSelector == 3     \* longest selector the pure scope claims range over

----------------------------------------------------------------------------
(* Instance tree (external collaborator, never mutated by the panel) *)

collectionComponent == "ws:collection"

InstanceIds == {"body", "list", "item"}

instances ==
    [i \in InstanceIds |->
        IF i = "list" THEN [id |-> i, component |-> collectionComponent]
        ELSE [id |-> i, component |-> "Box"]]

NoSelector == <<>>

\* the selectors the selected instance takes
Selectors == {<<"item", "list", "body">>}

includes(seq, x) == \E k \in 1..Len(seq) : seq[k] = x

----------------------------------------------------------------------------
(* Ids *)

Undefined == "undefined"

InitialVariableIds == {"v", "r", "p"}

NewIds == {"n" \o ToString(k) : k \in 1..MaxNew}

VariableIds == InitialVariableIds \cup NewIds

NewPropIds == {"q" \o ToString(k) : k \in 1..MaxNew}

Names == {"count"}

----------------------------------------------------------------------------
(* Identifier codec *)

encodeDataSourceVariable(id) == "$ws$dataSource$" \o id

decodeDataSourceVariable(identifier) ==
    IF \E id \in VariableIds : encodeDataSourceVariable(id) = identifier
    THEN CHOOSE id \in VariableIds : encodeDataSourceVariable(id) = identifier
    ELSE Undefined

----------------------------------------------------------------------------
(* Expression texts *)

NoText == <<"<undefined>">>          \* the expression state when undefined

Literals == {"0", "1", "true", "\"\"", "{}", "null"}

PlainIdentifiers == {"a", "b"}

EncodedIdentifiers == {encodeDataSourceVariable(id) : id \in VariableIds}

Identifiers == PlainIdentifiers \cup EncodedIdentifiers

Operands == Literals \cup Identifiers \cup {"this"}

Operators == {"+", "="}

NoError == [kind |-> "none", ids |-> <<>>]

Error(kind, ids) == [kind |-> kind, ids |-> ids]

\* the parser accepts: operand (operator operand)*, "=" only as the root
\* operator with an identifier on its left
SyntaxOk(text) ==
    /\ Len(text) % 2 = 1
    /\ \A k \in 1..Len(text) :
          IF k % 2 = 1 THEN text[k] \in Operands
          ELSE /\ text[k] \in Operators
               /\ text[k] = "=" => (k = 2 /\ text[1] \in Identifiers)

RECURSIVE walk(_, _, _, _)
\* visits the operands left to right; calls transformIdentifier on every
\* identifier; the callback throws on an identifier outside allowed, the
\* validator throws on a forbidden construct
walk(text, k, allowed, visited) ==
    IF k > Len(text) THEN [error |-> NoError, visited |-> visited]
    ELSE IF text[k] = "this"
    THEN [error |-> Error("forbidden", <<>>), visited |-> visited]
    ELSE IF text[k] \in Identifiers
    THEN IF text[k] \in allowed
         THEN walk(text, k + 2, allowed, Append(visited, text[k]))
         ELSE [error |-> Error("unknown", <<text[k]>>),
               visited |-> Append(visited, text[k])]
    ELSE walk(text, k + 2, allowed, visited)

\* validateExpression(code, {optional, effectful, transformIdentifier}):
\* error is the exception thrown (NoError when it returns), visited the
\* identifiers transformIdentifier was called with, in order
validateExpression(code, optional, effectful, allowed) ==
    IF code = <<>>
    THEN [error |-> IF optional THEN NoError ELSE Error("syntax", <<>>),
          visited |-> <<>>, code |-> code]
    ELSE IF ~SyntaxOk(code)
    THEN [error |-> Error("syntax", <<>>), visited |-> <<>>, code |-> code]
    ELSE IF Len(code) >= 2 /\ code[2] = "=" /\ ~effectful
    THEN [error |-> Error("forbidden", <<>>), visited |-> <<>>, code |-> code]
    ELSE [error |-> walk(code, 1, allowed, <<>>).error,
          visited |-> walk(code, 1, allowed, <<>>).visited,
          code |-> code]

\* new Set(ids) keeps the first occurrence of every element
RECURSIVE dedupe(_)
dedupe(seq) ==
    IF seq = <<>> THEN <<>>
    ELSE LET front == dedupe(SubSeq(seq, 1, Len(seq) - 1))
             last == seq[Len(seq)]
         IN IF includes(front, last) THEN front ELSE Append(front, last)

----------------------------------------------------------------------------
(* JavaScript values of variable literals *)

JsValue(typeof, num, str) == [typeof |-> typeof, num |-> num, str |-> str]

JsUndefined == JsValue("undefined", 0, "")

evalLiteral(token) ==
    CASE token = "0" -> JsValue("number", 0, "")
      [] token = "1" -> JsValue("number", 1, "")
      [] token = "true" -> JsValue("boolean", 1, "")
      [] token = "\"\"" -> JsValue("string", 0, "")
      [] token = "{}" -> JsValue("object", 0, "{}")
      [] token = "null" -> JsValue("object", 0, "null")

\* eval(`(${code})`) of a text without identifiers
eval(code) ==
    IF code = <<>> THEN [error |-> TRUE, value |-> JsUndefined]
    ELSE IF Len(code) = 1
    THEN [error |-> FALSE, value |-> evalLiteral(code[1])]
    ELSE [error |-> FALSE,
          value |-> JsValue("number", evalLiteral(code[1]).num
                                        + evalLiteral(code[3]).num, "")]

\* formatValue(value): the text the value editor shows for a stored value
formatValue(js) ==
    CASE js.typeof = "string" -> <<"\"" \o js.str \o "\"">>
      [] js.typeof = "number" -> <<ToString(js.num)>>
      [] js.typeof = "boolean" -> <<IF js.num = 1 THEN "true" ELSE "false">>
      [] OTHER -> <<js.str>>

\* mutant: the value is evaluated whatever the validator reported
parseVariableValueUnchecked(code) ==
    IF code # <<>> /\ SyntaxOk(code) /\ \A k \in 1..Len(code) :
                                          k % 2 = 1 => code[k] \in Literals
    THEN [value |-> eval(code).value, error |-> NoError]
    ELSE [value |-> JsUndefined, error |-> NoError]

\* parseVariableValue(code)
parseVariableValue(code) ==
    LET validated == validateExpression(code, TRUE, FALSE, Identifiers)
        ids == dedupe(validated.visited)
    IN IF validated.error # NoError
       THEN [value |-> JsUndefined, error |-> validated.error]
       ELSE IF Len(ids) = 0
       THEN IF eval(validated.code).error
            THEN [value |-> JsUndefined, error |-> Error("parse", <<>>)]
            ELSE [value |-> eval(validated.code).value, error |-> NoError]
       ELSE [value |-> JsUndefined, error |-> Error("dependency", ids)]

----------------------------------------------------------------------------
(* Entities *)

NoValue == [type |-> "none", value |-> JsUndefined]

DataSource(id, scopeInstanceId, n, type, val, resourceId) ==
    [id |-> id, scopeInstanceId |-> scopeInstanceId, name |-> n,
     type |-> type, value |-> val, resourceId |-> resourceId]

NoVariable == DataSource(Undefined, Undefined, "", "none", NoValue, Undefined)

Prop(id, instanceId, n, type, text, steps) ==
    [id |-> id, instanceId |-> instanceId, name |-> n, type |-> type,
     value |-> text, steps |-> steps]

View(n, variable) == [name |-> n, variable |-> variable]

\* the handler that ran last, the variable it was about, whether it
\* committed a transaction, and the variable whose delete was refused, as a
\* referenced variable, just before the props were last changed
Op(op, id, committed) ==
    [op |-> op, id |-> id, committed |-> committed, refused |-> Undefined]

Idle == Op("none", Undefined, FALSE)

\* the map m with key k set to v
MapSet(m, k, v) == [x \in DOMAIN m \cup {k} |-> IF x = k THEN v ELSE m[x]]

\* the map m without key k
MapDelete(m, k) == [x \in DOMAIN m \ {k} |-> m[x]]

----------------------------------------------------------------------------
(* Computed stores *)

\* mutant: the parameter of a collection is hidden wherever it is in scope
selectedInstanceVariablesHidingItem(instanceSelector, sources) ==
    IF instanceSelector = NoSelector THEN {}
    ELSE {id \in DOMAIN sources :
            /\ ~(/\ sources[id].type = "parameter"
                 /\ sources[id].scopeInstanceId \in DOMAIN instances
                 /\ instances[sources[id].scopeInstanceId].component
                        = collectionComponent)
            /\ sources[id].scopeInstanceId # Undefined
            /\ includes(instanceSelector, sources[id].scopeInstanceId)}

\* mutant: only the variables of the outermost instance are matched
selectedInstanceVariablesOfRoot(instanceSelector, sources) ==
    IF instanceSelector = NoSelector THEN {}
    ELSE {id \in DOMAIN sources :
            /\ ~(/\ sources[id].type = "parameter"
                 /\ instanceSelector[1] = sources[id].scopeInstanceId
                 /\ instanceSelector[1] \in DOMAIN instances
                 /\ instances[instanceSelector[1]].component
                        = collectionComponent)
            /\ sources[id].scopeInstanceId # Undefined
            /\ instanceSelector[Len(instanceSelector)]
                  = sources[id].scopeInstanceId}

\* $selectedInstanceVariables: ids of the variables listed for the selector
selectedInstanceVariables(instanceSelector, sources) ==
    IF instanceSelector = NoSelector THEN {}
    ELSE {id \in DOMAIN sources :
            /\ ~(/\ sources[id].type = "parameter"
                 /\ instanceSelector[1] = sources[id].scopeInstanceId
                 /\ instanceSelector[1] \in DOMAIN instances
                 /\ instances[instanceSelector[1]].component
                        = collectionComponent)
            /\ sources[id].scopeInstanceId # Undefined
            /\ includes(instanceSelector, sources[id].scopeInstanceId)}

\* mutant: the steps of action props are validated without effectful
usedInTextNotEffectful(text, effectful) ==
    LET visited == validateExpression(text, FALSE, FALSE,
                                      Identifiers).visited
    IN {decodeDataSourceVariable(visited[k]) : k \in 1..Len(visited)}
          \ {Undefined}

\* variable ids the scan of one text adds to usedVariables
usedInText(text, effectful) ==
    LET visited == validateExpression(text, FALSE, effectful,
                                      Identifiers).visited
    IN {decodeDataSourceVariable(visited[k]) : k \in 1..Len(visited)}
          \ {Undefined}

\* mutant: the steps of action props are not scanned
usedVariablesOfExpressions(ps) ==
    UNION {IF ps[q].type = "expression" THEN usedInText(ps[q].value, FALSE)
           ELSE {} : q \in DOMAIN ps}

\* $usedVariables
usedVariables(ps) ==
    UNION {IF ps[q].type = "expression" THEN usedInText(ps[q].value, FALSE)
           ELSE IF ps[q].type = "action"
           THEN UNION {usedInText(ps[q].steps[k], TRUE) :
                          k \in 1..Len(ps[q].steps)}
           ELSE {} : q \in DOMAIN ps}

\* mutant: the kind of the variable is not consulted
deletableOfAnyType(variable, ps) == variable.id \notin usedVariables(ps)

\* mutant: the referenced set is not consulted
deletableWhenUsed(variable, ps) == variable.type = "variable"

\* ListPanel: deletable
deletable(variable, ps) ==
    variable.type = "variable" /\ variable.id \notin usedVariables(ps)

\* mutant: every variable of the project is an alias, listed or not
editorAliasesOfAllVariables(instanceSelector, sources) ==
    {encodeDataSourceVariable(id) : id \in DOMAIN sources}

\* ListPanel: editorAliases (the keys)
editorAliases(instanceSelector, sources) ==
    {encodeDataSourceVariable(id) :
        id \in selectedInstanceVariables(instanceSelector, sources)}

----------------------------------------------------------------------------
(* Store mutations *)

\* renameVariable: the variables collection after the transaction
renameVariable(sources, variable, n) ==
    MapSet(sources, variable.id, [variable EXCEPT !.name = n])

\* mutant: the value keeps the tag it is initialised with
variableValueJson(js) == [type |-> "json", value |-> js]

\* saveVariable: the typed value stored for an evaluated literal
variableValue(js) ==
    IF js.typeof = "string" THEN [type |-> "string", value |-> js]
    ELSE IF js.typeof = "number" THEN [type |-> "number", value |-> js]
    ELSE IF js.typeof = "boolean" THEN [type |-> "boolean", value |-> js]
    ELSE [type |-> "json", value |-> js]

\* mutant: the resource of a converted variable is kept
saveResourcesKeeping(res, dataSource) == res

\* saveVariable: the resources collection after the transaction
saveResources(res, dataSource) ==
    IF dataSource.type = "resource" THEN res \ {dataSource.resourceId}
    ELSE res

\* mutant: the variable is moved to the selected instance
saveDataSourcesRescoping(sources, dataSourceId, instanceId, n, js) ==
    MapSet(sources, dataSourceId,
           DataSource(dataSourceId, instanceId, n, "variable",
                      variableValue(js), Undefined))

\* saveVariable: the variables collection after the transaction
saveDataSources(sources, dataSourceId, instanceId, n, js) ==
    MapSet(sources, dataSourceId,
           DataSource(dataSourceId,
                      IF dataSourceId \in DOMAIN sources
                          /\ sources[dataSourceId].scopeInstanceId # Undefined
                      THEN sources[dataSourceId].scopeInstanceId
                      ELSE instanceId,
                      n, "variable", variableValue(js), Undefined))

\* mutant: the instance id is taken from the other end of the selector
saveVariableAtRoot(sources, res, sel, dataSource, dataSourceId, n, valueString) ==
    LET parsed == parseVariableValue(valueString)
    IN IF parsed.error # NoError
       THEN [error |-> parsed.error, committed |-> FALSE,
             dataSources |-> sources, resources |-> res]
       ELSE IF sel = NoSelector
       THEN [error |-> NoError, committed |-> FALSE,
             dataSources |-> sources, resources |-> res]
       ELSE [error |-> NoError, committed |-> TRUE,
             dataSources |-> saveDataSources(sources, dataSourceId,
                                             sel[Len(sel)], n, parsed.value),
             resources |-> saveResources(res, dataSource)]

\* saveVariable(dataSource, name, valueString); dataSourceId is
\* dataSource?.id ?? nanoid()
saveVariable(sources, res, sel, dataSource, dataSourceId, n, valueString) ==
    LET parsed == parseVariableValue(valueString)
        instanceSelector == sel
    IN IF parsed.error # NoError
       THEN [error |-> parsed.error, committed |-> FALSE,
             dataSources |-> sources, resources |-> res]
       ELSE IF instanceSelector = NoSelector
       THEN [error |-> NoError, committed |-> FALSE,
             dataSources |-> sources, resources |-> res]
       ELSE [error |-> NoError, committed |-> TRUE,
             dataSources |-> saveDataSources(sources, dataSourceId,
                                             instanceSelector[1], n,
                                             parsed.value),
             resources |-> saveResources(res, dataSource)]

\* mutant: the entry is looked up by the variable's name
deleteVariableByName(sources, variable) == MapDelete(sources, variable.name)

\* deleteVariable: the variables collection after the transaction
deleteVariable(sources, variable) == MapDelete(sources, variable.id)

\* mutant: an existing prop keeps its type and takes only the new value
setPropValueKeepingType(ps, instanceSelector, pid, pname, type, text, newId) ==
    IF instanceSelector = NoSelector THEN ps
    ELSE IF pid = Undefined \/ pid \notin DOMAIN ps
    THEN MapSet(ps, newId,
                Prop(newId, instanceSelector[1], pname, type, text, <<>>))
    ELSE MapSet(ps, pid, [ps[pid] EXCEPT !.value = text])

\* setPropValue({propId, propName, propValue}); newId is nanoid()
setPropValue(ps, instanceSelector, pid, pname, type, text, newId) ==
    IF instanceSelector = NoSelector THEN ps
    ELSE IF pid = Undefined \/ pid \notin DOMAIN ps
    THEN MapSet(ps, newId,
                Prop(newId, instanceSelector[1], pname, type, text, <<>>))
    ELSE MapSet(ps, pid,
                [ps[pid] EXCEPT !.type = type, !.value = text,
                                !.steps = <<>>])

\* removeExpression; the literal default is getStartingValue(propMeta)
removeExpression(ps, instanceSelector, pid, pname, hasDefault, newId) ==
    IF hasDefault
    THEN setPropValue(ps, instanceSelector, pid, pname, "literal", <<>>, newId)
    ELSE IF pid # Undefined THEN MapDelete(ps, pid)
    ELSE ps

----------------------------------------------------------------------------
(* Inputs *)

\* texts typed into the value editor
ValueTexts == {<<>>, <<"1">>, <<"a", "+", "b">>, <<"1", "+">>}

\* texts typed into the expression editor of the list
ExpressionTexts ==
    {<<>>, <<encodeDataSourceVariable("v")>>, <<"a">>,
     <<encodeDataSourceVariable("r"), "+", "this">>}

\* the props the popover can be opened on: propId and propName
Panels == {<<"pr1", "text">>, <<"pr2", "onClick">>, <<Undefined, "title">>}

\* the projects a session starts with: the variable the project has, and
\* the propId and propName the popover is opened with; the popover is opened
\* on every prop for the value variable and on the prop that uses the
\* variable for the others
Projects ==
    {<<"v", panel[1], panel[2]>> : panel \in Panels}
       \cup {<<subject, "pr2", "onClick">> : subject \in InitialVariableIds}

\* getStartingValue(propMeta) yields a literal for these props
propDefault == propName \in {"text", "title"}

----------------------------------------------------------------------------
(* Initial state: a project with one variable, an action prop that uses   *)
(* it, and the popover opened on a prop of the selected instance           *)

ListView == View("list", NoVariable)

\* the variables a project can start with
InitialVariable(id) ==
    CASE id = "v" -> DataSource("v", "body", "count", "variable",
                                variableValue(evalLiteral("0")), Undefined)
      [] id = "r" -> DataSource("r", "body", "count", "resource",
                                NoValue, "res1")
      [] id = "p" -> DataSource("p", "list", "item", "parameter",
                                NoValue, Undefined)

Init ==
    /\ \E project \in Projects :
        LET subject == project[1]
        IN
          /\ propId = project[2]
          /\ propName = project[3]
          /\ dataSources = [id \in {subject} |-> InitialVariable(id)]
          /\ props =
                [q \in {"pr1", "pr2"} |->
                    IF q = "pr1"
                    THEN Prop("pr1", "item", "text", "literal", <<>>, <<>>)
                    ELSE Prop("pr2", "item", "onClick", "action", <<>>,
                              << <<encodeDataSourceVariable(subject),
                                   "=", "1">> >>)]
          /\ created = [id \in {subject} |->
                           InitialVariable(id).scopeInstanceId]
    /\ resources = {"res1"}
    /\ selector = <<"item", "list", "body">>
    /\ view = ListView
    /\ tab = "value"
    /\ name = ""
    /\ value = <<>>
    /\ nameErrors = NoError
    /\ valueErrors = NoError
    /\ expression = NoText
    /\ lastOp = Idle
    /\ minted = {}

\* the edit form is unmounted in the list view and keeps no state
FormClosed ==
    /\ tab' = "value"
    /\ name' = ""
    /\ value' = <<>>
    /\ nameErrors' = NoError
    /\ valueErrors' = NoError

FormUnchanged == UNCHANGED <<tab, name, value, nameErrors, valueErrors>>

PanelUnchanged == UNCHANGED <<propId, propName>>

\* the parent renders the panel with the id of the prop it has for propName:
\* a prop that setPropValue created is passed as propId from then on
PanelRendered(isNew, newId) ==
    /\ propId' = IF isNew THEN newId ELSE propId
    /\ UNCHANGED propName

----------------------------------------------------------------------------
(* Environment *)

\* $selectedInstanceSelector changes
SelectInstance(instanceSelector) ==
    /\ view.name = "list"
    /\ instanceSelector # selector
    /\ selector' = instanceSelector
    /\ lastOp' = Idle
    /\ UNCHANGED <<stores, view, expression, minted, created>>
    /\ FormUnchanged /\ PanelUnchanged

----------------------------------------------------------------------------
(* Edit session *)

\* the value the form starts with: variable?.value.value ?? ""
startingValue(variable) ==
    IF variable.type = "variable"
        /\ variable.value.value.typeof # "undefined"
        /\ ~(variable.value.value.typeof = "object"
             /\ variable.value.value.str = "null")
    THEN variable.value.value
    ELSE JsValue("string", 0, "")

\* onAdd: "Create variable" / "New variable"
OnAdd ==
    /\ view.name = "list"
    /\ NewIds \ minted # {}
    /\ view' = View("add", NoVariable)
    /\ tab' = "value"
    /\ name' = ""
    /\ value' = formatValue(startingValue(NoVariable))
    /\ nameErrors' = NoError
    /\ valueErrors' = NoError
    /\ expression' = NoText
    /\ lastOp' = Idle
    /\ UNCHANGED <<stores, selector, minted, created>>
    /\ PanelUnchanged

\* onEdit: "Edit variable" of a listed variable
OnEdit(id) ==
    /\ view.name = "list"
    /\ id \in selectedInstanceVariables(selector, dataSources)
    /\ view' = View("edit", dataSources[id])
    /\ tab' = IF dataSources[id].type = "resource" THEN "resource" ELSE "value"
    /\ name' = dataSources[id].name
    /\ value' = formatValue(startingValue(dataSources[id]))
    /\ nameErrors' = NoError
    /\ valueErrors' = NoError
    /\ expression' = NoText
    /\ lastOp' = Idle
    /\ UNCHANGED <<stores, selector, minted, created>>
    /\ PanelUnchanged

\* PanelTabs onValueChange: the panel of the other tab is mounted afresh
SetTab(t) ==
    /\ view.name \in {"add", "edit"}
    /\ view.variable.type # "parameter"
    /\ t # tab
    /\ tab' = t
    /\ name' = IF t = "value" THEN view.variable.name ELSE ""
    /\ value' = IF t = "value" THEN formatValue(startingValue(view.variable))
                ELSE <<>>
    /\ nameErrors' = NoError
    /\ valueErrors' = NoError
    /\ lastOp' = Idle
    /\ UNCHANGED <<stores, selector, view, expression, minted, created>>
    /\ PanelUnchanged

\* name InputField onChange
SetName(n) ==
    /\ view.name \in {"add", "edit"}
    /\ tab = "value"
    /\ n # name
    /\ name' = n
    /\ lastOp' = Idle
    /\ UNCHANGED <<stores, selector, view, tab, value, nameErrors,
                   valueErrors, expression, minted, created>>
    /\ PanelUnchanged

\* value ExpressionEditor onChange
SetValue(text) ==
    /\ view.name \in {"add", "edit"}
    /\ tab = "value"
    /\ view.variable.type # "parameter"
    /\ text # value
    /\ value' = text
    /\ lastOp' = Idle
    /\ UNCHANGED <<stores, selector, view, tab, name, nameErrors,
                   valueErrors, expression, minted, created>>
    /\ PanelUnchanged

\* mutant: Cancel closes the form through the save of the typed value
CancelSaving ==
    /\ view.name = "edit"
    /\ selector # NoSelector
    /\ dataSources' = saveDataSources(dataSources, view.variable.id,
                                      selector[1], name, JsUndefined)
    /\ view' = ListView
    /\ FormClosed
    /\ lastOp' = Op("cancel", Undefined, FALSE)
    /\ UNCHANGED <<resources, props, selector, expression, minted, created>>
    /\ PanelUnchanged

\* Cancel button
Cancel ==
    /\ view.name \in {"add", "edit"}
    /\ view' = ListView
    /\ FormClosed
    /\ lastOp' = Op("cancel", Undefined, FALSE)
    /\ UNCHANGED <<stores, selector, expression, minted, created>>
    /\ PanelUnchanged

\* Escape key
Escape ==
    /\ view.name \in {"add", "edit"}
    /\ view' = ListView
    /\ FormClosed
    /\ lastOp' = Op("cancel", Undefined, FALSE)
    /\ UNCHANGED <<stores, selector, expression, minted, created>>
    /\ PanelUnchanged

\* Save button
Save ==
    /\ view.name \in {"add", "edit"}
    /\ tab = "value"
    /\ \E dataSourceId \in (IF view.variable = NoVariable
                            THEN NewIds \ minted
                            ELSE {view.variable.id}) :
          LET variable == view.variable
              isParameter == variable.type = "parameter"
              renamed == IF isParameter
                         THEN renameVariable(dataSources, variable, name)
                         ELSE dataSources
              result == saveVariable(renamed, resources, selector, variable,
                                     dataSourceId, name, value)
              closed == isParameter \/ result.error = NoError
          IN IF name = ""
             THEN /\ nameErrors' = Error("required", <<>>)
                  /\ lastOp' = Op("save", variable.id, FALSE)
                  /\ UNCHANGED <<stores, selector, view, tab, name, value,
                                 valueErrors, expression, minted, created>>
             ELSE /\ dataSources' = result.dataSources
                  /\ resources' = result.resources
                  /\ lastOp' = Op("save", dataSourceId,
                                  isParameter \/ result.committed)
                  /\ minted' = IF variable = NoVariable /\ result.committed
                               THEN minted \cup {dataSourceId} ELSE minted
                  /\ created' =
                        IF dataSourceId \notin DOMAIN created
                            /\ result.committed
                        THEN MapSet(created, dataSourceId,
                               result.dataSources[dataSourceId].scopeInstanceId)
                        ELSE created
                  /\ IF closed
                     THEN view' = ListView /\ FormClosed
                     ELSE /\ valueErrors' = result.error
                          /\ UNCHANGED <<view, tab, name, value, nameErrors>>
                  /\ UNCHANGED <<props, selector, expression>>
    /\ PanelUnchanged

----------------------------------------------------------------------------
(* List view *)

\* the prop the panel shows: props.get(propId)
panelProp == IF propId # Undefined /\ propId \in DOMAIN props
             THEN props[propId]
             ELSE Prop(Undefined, Undefined, "", "none", <<>>, <<>>)

\* whether setPropValue has to create the prop
createsProp == selector # NoSelector
                  /\ (propId = Undefined \/ propId \notin DOMAIN props)

\* ids nanoid() may return for a new prop
PropIdChoices == IF createsProp THEN NewPropIds \ minted ELSE {Undefined}

\* "Delete variable" of a listed variable; the button is disabled unless
\* the variable is deletable
DeleteClick(id) ==
    /\ view.name = "list"
    /\ id \in selectedInstanceVariables(selector, dataSources)
    /\ IF deletable(dataSources[id], props)
       THEN /\ dataSources' = deleteVariable(dataSources, dataSources[id])
            /\ lastOp' = [Op("delete", id, TRUE) EXCEPT
                              !.refused = lastOp.refused]
       ELSE /\ lastOp' = [Op("delete", id, FALSE) EXCEPT
                              !.refused = IF id \in usedVariables(props)
                                          THEN id ELSE Undefined]
            /\ UNCHANGED dataSources
    /\ UNCHANGED <<resources, props, selector, view, expression, minted,
                   created>>
    /\ FormUnchanged /\ PanelUnchanged

\* onSelect: click on a listed variable binds the prop to it
OnSelect(id) ==
    /\ view.name = "list"
    /\ id \in selectedInstanceVariables(selector, dataSources)
    /\ \E newId \in PropIdChoices :
          /\ props' = setPropValue(props, selector, propId, propName,
                                   "expression",
                                   <<encodeDataSourceVariable(id)>>, newId)
          /\ minted' = IF createsProp THEN minted \cup {newId} ELSE minted
          /\ PanelRendered(createsProp, newId)
    /\ lastOp' = [Op("bind", id, TRUE) EXCEPT !.refused = lastOp.refused]
    /\ UNCHANGED <<dataSources, resources, selector, view, expression,
                   created>>
    /\ FormUnchanged

\* expression ExpressionEditor onChange
SetExpression(text) ==
    /\ view.name = "list"
    /\ selectedInstanceVariables(selector, dataSources) # {}
    /\ text # expression
    /\ expression' = text
    /\ lastOp' = Idle
    /\ UNCHANGED <<stores, selector, view, minted, created>>
    /\ FormUnchanged /\ PanelUnchanged

\* "Remove expression" button
RemoveExpression ==
    /\ view.name = "list"
    /\ panelProp.type = "expression"
    /\ \E newId \in (IF propDefault THEN PropIdChoices ELSE {Undefined}) :
          /\ props' = removeExpression(props, selector, propId, propName,
                                       propDefault, newId)
          /\ minted' = IF propDefault /\ createsProp
                       THEN minted \cup {newId} ELSE minted
          /\ PanelRendered(propDefault /\ createsProp, newId)
    /\ lastOp' = [Op("remove", Undefined, TRUE) EXCEPT
                      !.refused = lastOp.refused]
    /\ UNCHANGED <<dataSources, resources, selector, view, expression,
                   created>>
    /\ FormUnchanged

\* expression ExpressionEditor onBlur
OnBlur ==
    /\ view.name = "list"
    /\ selectedInstanceVariables(selector, dataSources) # {}
    /\ expression # NoText
    /\ IF expression = <<>>
       THEN /\ \E newId \in (IF propDefault THEN PropIdChoices
                             ELSE {Undefined}) :
                  /\ props' = removeExpression(props, selector, propId,
                                               propName, propDefault, newId)
                  /\ minted' = IF propDefault /\ createsProp
                               THEN minted \cup {newId} ELSE minted
                  /\ PanelRendered(propDefault /\ createsProp, newId)
            /\ expression' = NoText
            /\ lastOp' = [Op("blur", Undefined, TRUE) EXCEPT
                              !.refused = lastOp.refused]
       ELSE IF validateExpression(expression, FALSE, FALSE,
                                  editorAliases(selector, dataSources)).error
                  # NoError
       THEN /\ lastOp' = Op("blur", Undefined, FALSE)
            /\ UNCHANGED <<props, expression, minted>>
            /\ PanelUnchanged
       ELSE /\ \E newId \in PropIdChoices :
                  /\ props' = setPropValue(props, selector, propId, propName,
                                           "expression", expression, newId)
                  /\ minted' = IF createsProp THEN minted \cup {newId}
                               ELSE minted
                  /\ PanelRendered(createsProp, newId)
            /\ expression' = NoText
            /\ lastOp' = [Op("blur", Undefined, TRUE) EXCEPT
                              !.refused = lastOp.refused]
    /\ UNCHANGED <<dataSources, resources, selector, view, created>>
    /\ FormUnchanged

----------------------------------------------------------------------------

Next ==
    \/ \E instanceSelector \in Selectors \cup {NoSelector} :
          SelectInstance(instanceSelector)
    \/ OnAdd
    \/ \E id \in VariableIds : OnEdit(id)
    \/ \E t \in {"value", "resource"} : SetTab(t)
    \/ \E n \in Names \cup {""} : SetName(n)
    \/ \E text \in ValueTexts : SetValue(text)
    \/ Cancel
    \/ Escape
    \/ Save
    \/ \E id \in VariableIds : DeleteClick(id)
    \/ \E id \in VariableIds : OnSelect(id)
    \/ \E text \in ExpressionTexts : SetExpression(text)
    \/ RemoveExpression
    \/ OnBlur

Spec == Init /\ [][Next]_vars

----------------------------------------------------------------------------
(* Scope resolution over arbitrary selectors and variable collections *)

\* every selector of at most MaxSelector instance ids
AllSelectors == UNION {[1..k -> InstanceIds] : k \in 1..MaxSelector}

ScopeVariableIds == {"x", "y"}

\* a variable of the given kind declared by the given instance
ScopeVariable(id, type, scopeInstanceId) ==
    CASE type = "variable" ->
            DataSource(id, scopeInstanceId, "count", "variable",
                       variableValue(evalLiteral("0")), Undefined)
      [] type = "resource" ->
            DataSource(id, scopeInstanceId, "count", "resource", NoValue,
                       "res1")
      [] type = "parameter" ->
            DataSource(id, scopeInstanceId, "count", "parameter", NoValue,
                       Undefined)

ScopeInit ==
    /\ \E types \in [ScopeVariableIds -> {"variable", "resource", "parameter"}],
          scopes \in [ScopeVariableIds -> InstanceIds \cup {Undefined}] :
          /\ dataSources = [id \in ScopeVariableIds |->
                               ScopeVariable(id, types[id], scopes[id])]
          /\ created = scopes
    /\ resources = {"res1"}
    /\ props = [q \in {} |-> Prop(q, "item", "text", "literal", <<>>, <<>>)]
    /\ selector = NoSelector
    /\ view = ListView
    /\ tab = "value"
    /\ name = ""
    /\ value = <<>>
    /\ nameErrors = NoError
    /\ valueErrors = NoError
    /\ expression = NoText
    /\ propId = Undefined
    /\ propName = "text"
    /\ lastOp = Idle
    /\ minted = {}

\* $selectedInstanceSelector is set to any selector
ScopeSelect(instanceSelector) ==
    /\ instanceSelector # selector
    /\ selector' = instanceSelector
    /\ UNCHANGED <<stores, view, expression, minted, created, lastOp>>
    /\ FormUnchanged /\ PanelUnchanged

ScopeNext == \E instanceSelector \in AllSelectors : ScopeSelect(instanceSelector)

ScopeSpec == ScopeInit /\ [][ScopeNext]_vars

----------------------------------------------------------------------------
(* Dependency scan over arbitrary props collections *)

MaxSteps == 2        \* most steps of an action prop the scan claims range over

ScanPropIds == {"pr1", "pr2", "pr3"}

\* texts of expression props, well formed and malformed
ScanTexts ==
    {<<>>,
     <<encodeDataSourceVariable("v")>>,
     <<encodeDataSourceVariable("v"), "+", "a">>,
     <<encodeDataSourceVariable("r"), "+", "this">>,
     <<encodeDataSourceVariable("v"), "+">>,
     <<encodeDataSourceVariable("p"), "=", "1">>}

\* texts of the steps of action props
ScanSteps ==
    {<<encodeDataSourceVariable("p"), "=", "1">>,
     <<encodeDataSourceVariable("r"), "+", "this">>}

\* the props an instance can have under one id
ScanProps(q) ==
    {Prop(q, "item", "text", "literal", <<encodeDataSourceVariable("r")>>, <<>>)}
      \cup {Prop(q, "item", "text", "expression", text, <<>>) :
                text \in ScanTexts}
      \cup {Prop(q, "item", "onClick", "action", <<>>, steps) :
                steps \in UNION {[1..k -> ScanSteps] : k \in 1..MaxSteps}}

ScanInit ==
    /\ props \in {ps \in [ScanPropIds -> UNION {ScanProps(q) : q \in ScanPropIds}] :
                    \A q \in ScanPropIds : ps[q].id = q}
    /\ dataSources = [id \in {"v"} |-> InitialVariable(id)]
    /\ created = [id \in {"v"} |-> InitialVariable(id).scopeInstanceId]
    /\ resources = {"res1"}
    /\ selector = <<"item", "list", "body">>
    /\ view = ListView
    /\ tab = "value"
    /\ name = ""
    /\ value = <<>>
    /\ nameErrors = NoError
    /\ valueErrors = NoError
    /\ expression = NoText
    /\ propId = "pr1"
    /\ propName = "text"
    /\ lastOp = Idle
    /\ minted = {}

\* $props is set by a transaction: the computed store is evaluated again
ScanSetProp(q, prop) ==
    /\ prop # props[q]
    /\ props' = MapSet(props, q, prop)
    /\ UNCHANGED <<dataSources, resources, selector, view, expression,
                   minted, created, lastOp>>
    /\ FormUnchanged /\ PanelUnchanged

ScanNext == \E q \in ScanPropIds : \E prop \in ScanProps(q) : ScanSetProp(q, prop)

ScanSpec == ScanInit /\ [][ScanNext]_vars

----------------------------------------------------------------------------
(* The list view of a project with variables of several scopes *)

\* the selector of the instance whose prop the popover was opened on
BindSelectors == {<<"item", "list", "body">>, <<"list", "body">>, <<"body">>}

\* texts typed into the expression editor of the list
BindTexts ==
    {<<>>,
     <<encodeDataSourceVariable("v")>>,
     <<encodeDataSourceVariable("r")>>,
     <<encodeDataSourceVariable("v"), "+", encodeDataSourceVariable("p")>>,
     <<"a">>,
     <<encodeDataSourceVariable("v"), "+", "this">>,
     <<encodeDataSourceVariable("v"), "+">>}

\* the variables of the project: a value variable of the body, a resource
\* variable and the parameter of the list
BindVariable(id) ==
    IF id = "r" THEN [InitialVariable(id) EXCEPT !.scopeInstanceId = "list"]
    ELSE InitialVariable(id)

BindInit ==
    /\ selector \in BindSelectors
    /\ \E panel \in Panels : propId = panel[1] /\ propName = panel[2]
    /\ dataSources = [id \in InitialVariableIds |-> BindVariable(id)]
    /\ created = [id \in InitialVariableIds |-> BindVariable(id).scopeInstanceId]
    /\ props =
          [q \in {"pr1", "pr2"} |->
              IF q = "pr1"
              THEN Prop("pr1", selector[1], "text", "literal", <<>>, <<>>)
              ELSE Prop("pr2", selector[1], "onClick", "action", <<>>,
                        << <<encodeDataSourceVariable("v"), "=", "1">> >>)]
    /\ resources = {"res1"}
    /\ view = ListView
    /\ tab = "value"
    /\ name = ""
    /\ value = <<>>
    /\ nameErrors = NoError
    /\ valueErrors = NoError
    /\ expression = NoText
    /\ lastOp = Idle
    /\ minted = {}

BindNext ==
    \/ \E id \in VariableIds : OnSelect(id)
    \/ \E text \in BindTexts : SetExpression(text)
    \/ RemoveExpression
    \/ OnBlur

BindSpec == BindInit /\ [][BindNext]_vars

----------------------------------------------------------------------------
(* The edit form with value texts of every kind of literal *)

\* texts typed into the value editor
LiteralTexts ==
    {<<literal>> : literal \in Literals}
       \cup {<<"0", "+", "1">>, <<>>, <<"a">>}

ValueInit ==
    /\ dataSources = [id \in {"v"} |-> InitialVariable(id)]
    /\ created = [id \in {"v"} |-> InitialVariable(id).scopeInstanceId]
    /\ props = [q \in {"pr1"} |->
                   Prop("pr1", "item", "text", "literal", <<>>, <<>>)]
    /\ propId = "pr1"
    /\ propName = "text"
    /\ resources = {}
    /\ selector = <<"item", "list", "body">>
    /\ view = ListView
    /\ tab = "value"
    /\ name = ""
    /\ value = <<>>
    /\ nameErrors = NoError
    /\ valueErrors = NoError
    /\ expression = NoText
    /\ lastOp = Idle
    /\ minted = {}

ValueNext ==
    \/ OnAdd
    \/ \E id \in VariableIds : OnEdit(id)
    \/ \E n \in Names : SetName(n)
    \/ \E text \in LiteralTexts : SetValue(text)
    \/ Cancel
    \/ Save

ValueSpec == ValueInit /\ [][ValueNext]_vars

----------------------------------------------------------------------------
(* Claims *)

\* the identifiers of a text
identifiersOf(text) ==
    {text[k] : k \in {j \in 1..Len(text) : text[j] \in Identifiers}}

\* C1: a click on "Delete variable" of a value variable that the props
\* reference (by an expression prop or a step of an action prop) removes
\* nothing: the variable stays and no store changes
C1_ReferencedDeleteRefused ==
    [][\A id \in VariableIds :
          (/\ lastOp'.op = "delete" /\ lastOp'.id = id
           /\ DeleteClick(id)
           /\ dataSources[id].type = "variable"
           /\ id \in usedVariables(props))
          => (UNCHANGED stores /\ id \in DOMAIN dataSources')]_vars

\* C1 witness: the delete of a referenced value variable has just been refused
C1_Witness ==
    /\ lastOp.op = "delete" /\ ~lastOp.committed
    /\ lastOp.refused = lastOp.id
    /\ lastOp.id \in DOMAIN dataSources
    /\ dataSources[lastOp.id].type = "variable"
    /\ lastOp.id \in usedVariables(props)

\* C2 as stated: a value or resource variable whose delete was refused
\* while it was referenced is removed by the same delete once it is
\* no longer referenced
C2_Original ==
    [][\A id \in VariableIds :
          (/\ lastOp'.op = "delete" /\ lastOp'.id = id
           /\ DeleteClick(id)
           /\ lastOp.refused = id
           /\ dataSources[id].type \in {"variable", "resource"}
           /\ id \notin usedVariables(props))
          => id \notin DOMAIN dataSources']_vars

\* C2 amended: a click on "Delete variable" of a listed value variable
\* that no prop references removes the variable from the variables
\* collection, also when the delete had been refused before
C2_UnreferencedDeleteSucceeds ==
    [][\A id \in VariableIds :
          (/\ lastOp'.op = "delete" /\ lastOp'.id = id
           /\ DeleteClick(id)
           /\ dataSources[id].type = "variable"
           /\ id \notin usedVariables(props))
          => (id \notin DOMAIN dataSources' /\ lastOp'.committed)]_vars

\* C2 witness: a variable was deleted whose delete had been refused before
\* the props stopped referencing it
C2_Witness ==
    /\ lastOp.op = "delete" /\ lastOp.committed
    /\ lastOp.refused = lastOp.id
    /\ lastOp.id \notin DOMAIN dataSources
    /\ lastOp.id \notin usedVariables(props)

\* C3: the save of the edit of a parameter changes only the name of that
\* variable: it stays a parameter without a value, with its id and scope,
\* and resources and props are unchanged
C3_ParameterSaveOnlyRenames ==
    [][(Save /\ view.variable.type = "parameter" /\ name # "")
          => (/\ dataSources' =
                    MapSet(dataSources, view.variable.id,
                           [dataSources[view.variable.id] EXCEPT
                               !.name = name])
              /\ UNCHANGED <<resources, props>>)]_vars

\* C4: a variable that started as a resource variable is either still a
\* resource variable with its resource entry, or a value variable of the
\* same id whose former resource entry is gone
C4_ConversionAtomic ==
    \A id \in DOMAIN dataSources \cap InitialVariableIds :
        InitialVariable(id).type = "resource" =>
            \/ /\ dataSources[id].type = "resource"
               /\ dataSources[id].resourceId = InitialVariable(id).resourceId
               /\ InitialVariable(id).resourceId \in resources
            \/ /\ dataSources[id].type = "variable"
               /\ dataSources[id].id = id
               /\ InitialVariable(id).resourceId \notin resources

\* C4 witness: a resource variable has been converted by a save
C4_Witness ==
    /\ lastOp.op = "save" /\ lastOp.committed
    /\ lastOp.id \in DOMAIN dataSources \cap InitialVariableIds
    /\ InitialVariable(lastOp.id).type = "resource"
    /\ dataSources[lastOp.id].type = "variable"
    /\ InitialVariable(lastOp.id).resourceId \notin resources

\* C5: a save that committed no transaction leaves the session in the
\* add or edit view and surfaces an error
C5_SaveLeavesOnlyOnCommit ==
    [][(Save /\ ~lastOp'.committed)
          => (/\ view' = view
              /\ (nameErrors' # NoError \/ valueErrors' # NoError))]_vars

\* C6: a save with a name whose value text fails validation or uses
\* identifiers changes no store and reports an error, which for
\* identifiers names each of them
C6_FailedSaveChangesNothing ==
    [][(/\ Save
        /\ name # ""
        /\ \/ validateExpression(value, TRUE, FALSE, Identifiers).error
                 # NoError
           \/ identifiersOf(value) # {})
          => (/\ UNCHANGED stores
              /\ ~lastOp'.committed
              /\ valueErrors' # NoError
              /\ validateExpression(value, TRUE, FALSE, Identifiers).error
                    = NoError
                 => (/\ valueErrors'.kind = "dependency"
                     /\ {valueErrors'.ids[k] :
                            k \in 1..Len(valueErrors'.ids)}
                           = identifiersOf(value)))]_vars

\* C6 witness: the save of a value that uses identifiers has just failed
\* for an existing variable, which kept its value
C6_Witness ==
    /\ lastOp.op = "save" /\ ~lastOp.committed
    /\ view.name = "edit"
    /\ valueErrors.kind = "dependency"
    /\ identifiersOf(value) = {"a", "b"}
    /\ view.variable.id \in DOMAIN dataSources
    /\ dataSources[view.variable.id] = view.variable

\* C7: a variable is listed for a selector exactly when its scope instance
\* occurs in the selector and it is not a parameter declared by the target
\* instance while that instance is a collection
C7_VisibleIffInScope ==
    selector # NoSelector =>
        \A id \in DOMAIN dataSources :
            id \in selectedInstanceVariables(selector, dataSources)
            <=> /\ \E k \in 1..Len(selector) :
                      selector[k] = dataSources[id].scopeInstanceId
                /\ ~(/\ dataSources[id].type = "parameter"
                     /\ dataSources[id].scopeInstanceId = selector[1]
                     /\ instances[selector[1]].component
                           = collectionComponent)

\* C7 witness: a parameter of the collection is hidden at the collection
\* while another is listed from a strict descendant's point of view
C7_Witness ==
    /\ selector # NoSelector
    /\ \E id \in DOMAIN dataSources :
          /\ dataSources[id].type = "parameter"
          /\ dataSources[id].scopeInstanceId = "list"
          /\ selector[1] = "list"
          /\ id \notin selectedInstanceVariables(selector, dataSources)
          /\ id \in selectedInstanceVariables(<<"item">> \o selector,
                                              dataSources)

\* C8: every variable listed for a selector is listed for every selector
\* that appends further instance ids to it
C8_ScopeMonotonic ==
    selector # NoSelector =>
        \A extension \in AllSelectors :
            selectedInstanceVariables(selector, dataSources)
                \subseteq selectedInstanceVariables(selector \o extension,
                                                    dataSources)

\* C8 witness: a selector that lists a variable and has an extension
\* that lists more
C8_Witness ==
    /\ selector # NoSelector
    /\ selectedInstanceVariables(selector, dataSources) # {}
    /\ \E extension \in AllSelectors :
          selectedInstanceVariables(selector \o extension, dataSources)
              # selectedInstanceVariables(selector, dataSources)

\* C9: every variable has the id it is stored under and the scope
\* instance it had when it was created
C9_IdAndScopeKept ==
    \A id \in DOMAIN dataSources :
        /\ dataSources[id].id = id
        /\ dataSources[id].scopeInstanceId = created[id]

\* C9 witness: a variable was saved while an instance other than its scope
\* instance was selected
C9_Witness ==
    /\ lastOp.op = "save" /\ lastOp.committed
    /\ lastOp.id \in DOMAIN dataSources
    /\ selector # NoSelector
    /\ dataSources[lastOp.id].scopeInstanceId # selector[1]
    /\ dataSources[lastOp.id].value = variableValue(evalLiteral("1"))

\* C10: Cancel and Escape return to the list and change no store
C10_CancelChangesNothing ==
    [][(Cancel \/ Escape)
          => (view'.name = "list" /\ UNCHANGED stores)]_vars

\* C10 witness: an edit session has just been cancelled
C10_Witness ==
    /\ lastOp.op = "cancel"
    /\ view.name = "list"

\* the texts the scan validates, each with its effectful option
scannedTexts(ps) ==
    {<<ps[q].value, FALSE>> : q \in {x \in DOMAIN ps : ps[x].type = "expression"}}
      \cup UNION {{<<ps[q].steps[k], TRUE>> : k \in 1..Len(ps[q].steps)} :
                     q \in {x \in DOMAIN ps : ps[x].type = "action"}}

\* the variable ids the identifiers of a text decode to
decodedIdentifiers(text) ==
    {decodeDataSourceVariable(identifier) :
        identifier \in identifiersOf(text)} \ {Undefined}

\* whether the scan's validation of a text succeeds
scanValidates(t) ==
    validateExpression(t[1], FALSE, t[2], Identifiers).error = NoError

C12_FailedTextContributesNothing ==
    usedVariables(props)
        = UNION {IF scanValidates(t) THEN usedInText(t[1], t[2]) ELSE {} :
                    t \in scannedTexts(props)}

\* C13: a click on a listed variable makes the prop of the panel an
\* expression prop whose text is the variable's encoded id: a prop that
\* exists keeps its id, instanceId and name, a prop that does not is created
\* for the target instance under propName; no other prop and no other store
\* changes, and the variable is in the referenced set right after
C13_SelectBinds ==
    [][\A id \in VariableIds :
          (lastOp'.op = "bind" /\ lastOp'.id = id /\ OnSelect(id))
          => /\ UNCHANGED <<dataSources, resources>>
             /\ selector # NoSelector
             /\ IF propId # Undefined /\ propId \in DOMAIN props
                THEN /\ DOMAIN props' = DOMAIN props
                     /\ props'[propId].id = propId
                     /\ props'[propId].instanceId = props[propId].instanceId
                     /\ props'[propId].name = props[propId].name
                     /\ props'[propId].type = "expression"
                     /\ props'[propId].value
                           = <<encodeDataSourceVariable(id)>>
                     /\ \A q \in DOMAIN props \ {propId} :
                           props'[q] = props[q]
                ELSE \E q \in DOMAIN props' \ DOMAIN props :
                     /\ DOMAIN props' = DOMAIN props \cup {q}
                     /\ props'[q].id = q
                     /\ props'[q].instanceId = selector[1]
                     /\ props'[q].name = propName
                     /\ props'[q].type = "expression"
                     /\ props'[q].value = <<encodeDataSourceVariable(id)>>
                     /\ \A x \in DOMAIN props : props'[x] = props[x]
             /\ id \in usedVariables(props')]_vars

\* C13 witness: the click has just created the prop of the panel, bound to
\* a variable that was created in the session
C13_Witness ==
    /\ lastOp.op = "bind"
    /\ lastOp.id \in NewIds
    /\ propId \in NewPropIds
    /\ propId \in DOMAIN props
    /\ props[propId] = Prop(propId, "item", "title", "expression",
                            <<encodeDataSourceVariable(lastOp.id)>>, <<>>)
    /\ lastOp.id \in usedVariables(props)

\* the prop of the panel adds nothing to the referenced set
panelPropUnbound(ps, pid) ==
    pid # Undefined /\ pid \in DOMAIN ps => ps[pid].type \notin {"expression", "action"}

\* C14: "Remove expression" and the commit of a blank expression change
\* only the props collection and leave the prop of the panel a literal when
\* a default is derivable and deleted otherwise, so that the prop adds no id
\* to the referenced set
C14_ClearUnbinds ==
    [][(/\ lastOp'.op \in {"remove", "blur"}
        /\ RemoveExpression \/ (OnBlur /\ expression = <<>>))
          => /\ UNCHANGED <<dataSources, resources>>
             /\ IF propDefault
                THEN /\ propId' # Undefined /\ propId' \in DOMAIN props'
                     /\ props'[propId'].type = "literal"
                ELSE propId = Undefined \/ propId \notin DOMAIN props'
             /\ panelPropUnbound(props', propId')]_vars

\* the identifiers of the variables listed for the selected instance
visibleIdentifiers ==
    {encodeDataSourceVariable(id) :
        id \in selectedInstanceVariables(selector, dataSources)}

\* C15: the blur of a typed expression that fails validation, or has an
\* identifier that is not the encoded id of a variable listed for the
\* selected instance, leaves the props unchanged; any other typed
\* expression becomes the text of the prop of the panel
C15_CommitOnlyVisible ==
    [][(lastOp'.op = "blur" /\ OnBlur /\ expression # <<>>)
          => IF /\ validateExpression(expression, FALSE, FALSE,
                                      Identifiers).error = NoError
                /\ identifiersOf(expression) \subseteq visibleIdentifiers
             THEN /\ propId' \in DOMAIN props'
                  /\ props'[propId'].type = "expression"
                  /\ props'[propId'].value = expression
             ELSE UNCHANGED props]_vars

\* C15 witness: the commit of the identifier of a variable of the project
\* that is out of scope at the selected instance has just been rejected
C15_Witness ==
    /\ lastOp.op = "blur" /\ ~lastOp.committed
    /\ expression = <<encodeDataSourceVariable("r")>>
    /\ "r" \in DOMAIN dataSources
    /\ "r" \notin selectedInstanceVariables(selector, dataSources)
    /\ "r" \notin usedVariables(props)

\* C16: a blur rejected for an identifier outside the aliases leaves an
\* error that names the identifier in the state the panel renders
C16_RejectionSurfaced ==
    [][(/\ lastOp'.op = "blur" /\ OnBlur
        /\ validateExpression(expression, FALSE, FALSE,
               editorAliases(selector, dataSources)).error.kind = "unknown")
          => \/ valueErrors'
                  = validateExpression(expression, FALSE, FALSE,
                        editorAliases(selector, dataSources)).error
             \/ nameErrors'
                  = validateExpression(expression, FALSE, FALSE,
                        editorAliases(selector, dataSources)).error]_vars

\* the type tag of a JavaScript value
typeTag(js) ==
    IF js.typeof \in {"string", "number", "boolean"} THEN js.typeof
    ELSE "json"

\* C17: a save that stores the typed value text stores a value variable
\* that holds the evaluated literal under the tag string, number or boolean
\* of its JavaScript type, and under the tag json for any other value
C17_TypeTagMatches ==
    [][(/\ lastOp'.op = "save" /\ Save
        /\ name # "" /\ selector # NoSelector
        /\ parseVariableValue(value).error = NoError)
          => /\ lastOp'.committed
             /\ lastOp'.id \in DOMAIN dataSources'
             /\ dataSources'[lastOp'.id].type = "variable"
             /\ dataSources'[lastOp'.id].value.value = eval(value).value
             /\ dataSources'[lastOp'.id].value.type
                   = typeTag(eval(value).value)]_vars

\* C17 witness: a new variable count was saved with the text 0 and holds
\* the number 0, while another variable holds a value tagged json
C17_Witness ==
    /\ lastOp.op = "save" /\ lastOp.committed
    /\ lastOp.id \in NewIds \cap DOMAIN dataSources
    /\ dataSources[lastOp.id].name = "count"
    /\ dataSources[lastOp.id].value
          = [type |-> "number", value |-> JsValue("number", 0, "")]
    /\ \E id \in DOMAIN dataSources : dataSources[id].value.type = "json"

\* C18: every variable id that an identifier of an expression prop or of a
\* step of an action prop decodes to is the id of a variable of the
\* variables collection
C18_NoDanglingReference ==
    UNION {decodedIdentifiers(t[1]) : t \in scannedTexts(props)}
        \subseteq DOMAIN dataSources

\* C18 witness: a variable has been deleted while the props are bound to
\* another variable
C18_Witness ==
    /\ lastOp.op = "delete" /\ lastOp.committed
    /\ lastOp.id \notin DOMAIN dataSources
    /\ usedVariables(props) # {}

\* C19: the save of the add form that commits stores one more variable,
\* under an id no variable had, and changes no other variable; the new
\* variable is a value variable scoped to the target instance of the
\* selector and is listed for the selected instance right after
C19_NewVariableAdded ==
    [][(/\ lastOp'.op = "save" /\ Save
        /\ view.name = "add" /\ lastOp'.committed)
          => /\ lastOp'.id \notin DOMAIN dataSources
             /\ DOMAIN dataSources' = DOMAIN dataSources \cup {lastOp'.id}
             /\ \A id \in DOMAIN dataSources :
                   dataSources'[id] = dataSources[id]
             /\ dataSources'[lastOp'.id].id = lastOp'.id
             /\ dataSources'[lastOp'.id].type = "variable"
             /\ dataSources'[lastOp'.id].name = name
             /\ dataSources'[lastOp'.id].scopeInstanceId = selector[1]
             /\ lastOp'.id
                   \in selectedInstanceVariables(selector', dataSources')
             /\ UNCHANGED <<resources, props>>]_vars

\* C19 witness: a new variable has just been saved next to the variable
\* the project had
C19_Witness ==
    /\ lastOp.op = "save" /\ lastOp.committed
    /\ lastOp.id \in NewIds \cap DOMAIN dataSources
    /\ dataSources[lastOp.id].scopeInstanceId = "item"
    /\ DOMAIN dataSources \cap InitialVariableIds # {}
    /\ view.name = "list"

\* C20: no step of the panel removes a variable that is a resource variable
\* or a parameter from the variables collection, and a click on "Delete
\* variable" of such a variable changes no store, so that the resource of a
\* resource variable stays together with its variable
C20_OnlyValueVariablesDeleted ==
    [][\A id \in DOMAIN dataSources :
          dataSources[id].type \in {"resource", "parameter"}
          => /\ id \in DOMAIN dataSources'
             /\ (lastOp'.op = "delete" /\ lastOp'.id = id /\ DeleteClick(id))
                   => UNCHANGED stores]_vars

\* C20 witness: the delete of a resource variable that no prop references
\* has just been refused, and its resource is still there
C20_Witness ==
    /\ lastOp.op = "delete" /\ ~lastOp.committed
    /\ lastOp.id \in DOMAIN dataSources
    /\ dataSources[lastOp.id].type = "resource"
    /\ dataSources[lastOp.id].resourceId \in resources
    /\ lastOp.id \notin usedVariables(props)
    /\ lastOp.refused = Undefined

====
